---- MODULE Spec2Model ----
(***************************************************************************)
(* cu_backfill: copy every file of a source tree into dst/<year>/, named   *)
(* after its EXIF DateTimeOriginal or its modification time                *)
(* (src/src/main.rs).                                                      *)
(*                                                                         *)
(* Byte strings are sequences of byte values (ASCII codes), so that the    *)
(* parser, the formatter and the existence probes work on the characters   *)
(* the program works on.                                                   *)
(***************************************************************************)
EXTENDS Integers, Sequences, FiniteSets, TLC

VARIABLES
    \* ---- one call of a pure function (atou, parse_exif_datetime) ----
    input,      \* the byte slice handed to the function
    width,      \* bit width of atou's target type T (0: not an atou call)
    called,     \* the function has returned
    ret,        \* its anyhow::Result
    \* ---- the command line and the world around one run of main ----
    dry_run,    \* Args::dry_run
    src,        \* what WalkDir yields under args.src, in order
    dstWritable,\* args.dst accepts new directories and files
    dst0,       \* the destination tree before the first run
    dirs,       \* names of the directories directly under args.dst
    plains,     \* names of the non-directory entries directly under args.dst
    files,      \* <<directory name, entry name>> of what the directories hold
    \* ---- main's position and locals ----
    pc,         \* where main is
    idx,        \* how many entries the WalkDir iterator has yielded
    datetime,   \* `datetime`
    new_path,   \* `new_path` below args.dst: <<component, ...>>
    n,          \* `n`, the next suffix the probe loop will try
    stdout,     \* the "src -> dst" lines printed by this run
    copies,     \* the std::fs::copy calls of this run
    made,       \* the create_dir_all calls of this run
    dryRun      \* the finished dry run this run repeats for real, if any

vars == <<input, width, called, ret, dry_run, src, dstWritable, dst0, dirs,
          plains, files, pc, idx, datetime, new_path, n, stdout, copies,
          made, dryRun>>

fnVars == <<input, width, called, ret>>
mainVars == <<dry_run, src, dstWritable, dst0, dirs, plains, files, pc, idx,
              datetime, new_path, n, stdout, copies, made, dryRun>>

----------------------------------------------------------------------------
(* Results and options *)

Ok(v) == [ok |-> TRUE, val |-> v]
Err(e) == [ok |-> FALSE, err |-> e]
Some(v) == [some |-> TRUE, val |-> v]
None == [some |-> FALSE]

----------------------------------------------------------------------------
(* Bytes *)

SP == 32       \* b' '
DASH == 45     \* b'-'
DOT == 46      \* b'.'
ZERO == 48     \* b'0'
NINE == 57     \* b'9'
COLON == 58    \* b':', the byte above b'9'

is_ascii_digit(b) == ZERO <= b /\ b <= NINE

to_ascii_lowercase_byte(b) == IF 65 <= b /\ b <= 90 THEN b + 32 ELSE b

to_ascii_lowercase(s) == [i \in 1..Len(s) |-> to_ascii_lowercase_byte(s[i])]

\* the range taken as a..=b
SliceInclusive(data, a, b) == SubSeq(data, a + 1, b + 1)

\* &data[a..b] of Rust: bytes a .. b-1, zero based
Slice(data, a, b) == SubSeq(data, a + 1, b)

\* data[i] of Rust, zero based
At(data, i) == data[i + 1]

----------------------------------------------------------------------------
(* atou<T>: unsigned types of width 8, 16 and 32.  TLC's integers are      *)
(* 32-bit signed, so T::MAX of u32 is kept as quotient and remainder by    *)
(* ten; every sum of two TLC integers is below u32::MAX.                   *)

Pow2(k) == 2 ^ k

T_MAX_DIV_TEN(w) == IF w = 32 THEN 429496729 ELSE (Pow2(w) - 1) \div 10

\* n.checked_mul(&ten)
checked_mul_ten(v, w) == IF v > T_MAX_DIV_TEN(w) THEN None ELSE Some(v * 10)

\* n.wrapping_add(digit) in its place
wrapping_add(v, d, w) ==
    IF w = 32 THEN Some(v + d) ELSE Some((v + d) % Pow2(w))

\* n.checked_add(&digit)
checked_add(v, d, w) ==
    IF w = 32 THEN Some(v + d)
    ELSE IF v + d > Pow2(w) - 1 THEN None ELSE Some(v + d)

RECURSIVE atou_loop(_, _, _, _)
atou_loop(bytes, i, acc, w) ==
    IF i > Len(bytes) THEN Ok(acc)
    ELSE IF ~is_ascii_digit(bytes[i]) THEN Err("non-ascii digit")
    ELSE LET digit == bytes[i] - ZERO
             m == checked_mul_ten(acc, w)
             a == IF m.some THEN checked_add(m.val, digit, w) ELSE None
         IN  IF a.some THEN atou_loop(bytes, i + 1, a.val, w)
             ELSE Err("overflow")

atou(bytes, w) == atou_loop(bytes, 1, 0, w)

----------------------------------------------------------------------------
(* parse_exif_datetime *)

BLANK_COLONS == <<32, 32, 32, 32, 58, 32, 32, 58, 32, 32, 32, 32, 32, 58, 32, 32, 58, 32, 32>>
BLANK_SPACES == <<32, 32, 32, 32, 32, 32, 32, 32, 32, 32, 32, 32, 32, 32, 32, 32, 32, 32, 32>>

parse_exif_datetime(data) ==
    IF data = BLANK_COLONS \/ data = BLANK_SPACES THEN Err("EXIF DateTime is blank")
    ELSE IF Len(data) < 19 THEN Err("EXIF DateTime too short")
    ELSE IF ~(At(data, 4) = COLON /\ At(data, 7) = COLON /\ At(data, 10) = SP
              /\ At(data, 13) = COLON /\ At(data, 16) = COLON)
         THEN Err("Invalid EXIF DateTime delimiter")
    ELSE LET year == atou(Slice(data, 0, 4), 32)
             month == atou(Slice(data, 5, 7), 8)
             day == atou(Slice(data, 8, 10), 8)
             hour == atou(Slice(data, 11, 13), 8)
             minute == atou(Slice(data, 14, 16), 8)
             second == atou(Slice(data, 17, 19), 8)
         IN  IF ~year.ok THEN year
             ELSE IF ~month.ok THEN month
             ELSE IF ~day.ok THEN day
             ELSE IF ~hour.ok THEN hour
             ELSE IF ~minute.ok THEN minute
             ELSE IF ~second.ok THEN second
             ELSE Ok([year |-> year.val, month |-> month.val, day |-> day.val,
                      hour |-> hour.val, minute |-> minute.val,
                      second |-> second.val])

----------------------------------------------------------------------------
(* The values the variables of the part that is not running rest at *)

NotCalled == Err("not called")

FnIdle == input = <<>> /\ width = 0 /\ called = FALSE /\ ret = NotCalled

NoDateTime == [year |-> 0, month |-> 0, day |-> 0, hour |-> 0, minute |-> 0,
               second |-> 0]

EmptyTree == [dirs |-> {}, plains |-> {}, files |-> {}]

NoRun == [ran |-> FALSE, status |-> "none", stdout |-> <<>>]

MainIdle ==
    /\ dry_run = FALSE /\ src = <<>> /\ dstWritable = TRUE
    /\ dst0 = EmptyTree /\ dirs = {} /\ plains = {} /\ files = {}
    /\ pc = "idle" /\ idx = 0 /\ datetime = NoDateTime /\ new_path = <<>>
    /\ n = 0 /\ stdout = <<>> /\ copies = <<>> /\ made = <<>> /\ dryRun = NoRun

----------------------------------------------------------------------------
(* SpecAtou: one call of atou::<T> on a byte slice *)

AtouMaxLen == 3

\* space, '/' (the byte below '0'), 0 2 5 6 9, ':' (the byte above '9'), 'x'
AtouAlphabet == {SP, 47, ZERO, 50, 53, 54, NINE, COLON, 120}

ShortInputs == UNION {[1..m -> AtouAlphabet] : m \in 0..AtouMaxLen}

LongInputs ==
    { <<48, 48, 48, 48, 48, 48, 48, 50, 53, 53>>,   \* "0000000255"
      <<54, 53, 53, 51, 53>>,                       \* "65535"
      <<54, 53, 53, 51, 54>>,                       \* "65536"
      <<50, 49, 52, 55, 52, 56, 51, 54, 52, 55>>,   \* "2147483647"
      <<52, 50, 57, 52, 57, 54, 55, 51, 48, 48>>,   \* "4294967300"
      <<57, 57, 57, 57, 57, 57, 57, 57, 57, 57>> }  \* "9999999999"

AtouInputs == ShortInputs \cup LongInputs

Widths == {8, 16, 32}

InitAtou ==
    /\ input \in AtouInputs
    /\ width \in Widths
    /\ called = FALSE
    /\ ret = NotCalled
    /\ MainIdle

CallAtou ==
    /\ width # 0
    /\ ~called
    /\ ret' = atou(input, width)
    /\ called' = TRUE
    /\ UNCHANGED <<input, width>>
    /\ UNCHANGED mainVars

NextAtou == CallAtou

SpecAtou == InitAtou /\ [][NextAtou]_vars

----------------------------------------------------------------------------
(* SpecParse: one call of parse_exif_datetime on the bytes of a tag *)

EXIF_A == <<50, 48, 50, 49, 58, 48, 54, 58, 49, 53, 32, 48, 56, 58, 51, 48, 58, 48, 48>>  \* "2021:06:15 08:30:00"

YearFields == { <<48, 48, 48, 48>>, <<50, 48, 50, 49>>, <<57, 57, 57, 57>> }
MonthFields == { <<48, 48>>, <<48, 54>>, <<49, 51>> }
DayFields == { <<49, 53>>, <<51, 49>>, <<57, 57>> }
HourFields == { <<48, 56>>, <<50, 52>> }
MinuteFields == { <<51, 48>>, <<54, 48>> }
SecondFields == { <<48, 48>>, <<57, 57>> }

\* every layout-conforming string over those fields, calendar-valid or not
LayoutInputs ==
    { y \o <<COLON>> \o mo \o <<COLON>> \o d \o <<SP>> \o h \o <<COLON>> \o mi
        \o <<COLON>> \o s :
      y \in YearFields, mo \in MonthFields, d \in DayFields, h \in HourFields,
      mi \in MinuteFields, s \in SecondFields }

\* EXIF_A with one byte replaced
PatchBytes == {SP, 47, ZERO, COLON, 120}
PatchedInputs ==
    { [EXIF_A EXCEPT ![p] = b] : p \in 1..19, b \in PatchBytes }

\* EXIF_A cut short, or followed by more bytes
CutInputs == { SubSeq(EXIF_A, 1, k) : k \in 0..18 }
LongerInputs == { EXIF_A \o <<0>>, EXIF_A \o <<SP, SP>> }

\* runs of spaces of several lengths, and the colon sentinel
SpaceInputs == { [i \in 1..k |-> SP] : k \in {18, 19, 20} }

ParseInputs ==
    LayoutInputs \cup PatchedInputs \cup CutInputs \cup LongerInputs
        \cup SpaceInputs \cup {BLANK_COLONS}

InitParse ==
    /\ input \in ParseInputs
    /\ width = 0
    /\ called = FALSE
    /\ ret = NotCalled
    /\ MainIdle

CallParse ==
    /\ width = 0
    /\ pc = "idle"
    /\ ~called
    /\ ret' = parse_exif_datetime(input)
    /\ called' = TRUE
    /\ UNCHANGED <<input, width>>
    /\ UNCHANGED mainVars

NextParse == CallParse

SpecParse == InitParse /\ [][NextParse]_vars

----------------------------------------------------------------------------
(* Formatting: format!("{:04}", ..), usize::to_string, the `filename`      *)
(* closure                                                                 *)

RECURSIVE to_string(_)
to_string(k) ==
    IF k < 10 THEN <<ZERO + k>> ELSE Append(to_string(k \div 10), ZERO + (k % 10))

\* {:0w}: at least w characters, zeros on the left
ZeroPad(k, w) ==
    LET s == to_string(k)
    IN  IF Len(s) >= w THEN s ELSE [i \in 1..(w - Len(s)) |-> ZERO] \o s

\* the closure without its `if n > 0`
filename_always_counted(dt, k, ext) ==
    LET s0 == ZeroPad(dt.year, 4) \o <<DASH>> \o ZeroPad(dt.month, 2) \o <<DASH>>
                \o ZeroPad(dt.day, 2) \o <<SP>> \o ZeroPad(dt.hour, 2) \o <<DOT>>
                \o ZeroPad(dt.minute, 2) \o <<DOT>> \o ZeroPad(dt.second, 2)
        s1 == s0 \o to_string(k)
    IN  IF ext.some THEN s1 \o <<DOT>> \o ext.val ELSE s1

filename(dt, k, ext) ==
    LET s0 == ZeroPad(dt.year, 4) \o <<DASH>> \o ZeroPad(dt.month, 2) \o <<DASH>>
                \o ZeroPad(dt.day, 2) \o <<SP>> \o ZeroPad(dt.hour, 2) \o <<DOT>>
                \o ZeroPad(dt.minute, 2) \o <<DOT>> \o ZeroPad(dt.second, 2)
        s1 == IF k > 0 THEN s0 \o to_string(k) ELSE s0
    IN  IF ext.some THEN s1 \o <<DOT>> \o ext.val ELSE s1

----------------------------------------------------------------------------
(* Date and time of one source entry: exif_datetime, mtime_datetime and    *)
(* the match of main                                                       *)

EXT_JPG == <<106, 112, 103>>         \* "jpg"
EXT_TIF == <<116, 105, 102>>         \* "tif"
EXT_TIFF == <<116, 105, 102, 102>>   \* "tiff"

\* rexif::parse_file and the lookup of DateTimeOriginal, by their outcome
exif_datetime(exif) ==
    IF exif.res = "readerr" THEN Err("failed to read EXIF")
    ELSE IF exif.res = "notag" THEN Err("no DateTimeOriginal EXIF tag found")
    ELSE IF exif.res = "nonascii" THEN Err("DateTimeOriginal EXIF tag has non-ASCII value")
    ELSE parse_exif_datetime(exif.value)

\* i32 -> u32 and u32 -> u8 by try_into
cast_u32(v) == IF v >= 0 THEN Ok(v) ELSE Err("out of range")
cast_u8(v) == IF v >= 0 /\ v <= 255 THEN Ok(v) ELSE Err("out of range")

\* Err stands for the panic of expect / unwrap / cast!
mtime_datetime(mtime) ==
    IF ~mtime.ok THEN Err("should be able to read metadata from open file")
    ELSE LET chr == mtime.chr
             year == cast_u32(chr.year)
             month == cast_u8(chr.month)
             day == cast_u8(chr.day)
             hour == cast_u8(chr.hour)
             minute == cast_u8(chr.minute)
             second == cast_u8(chr.second)
         IN  IF ~(year.ok /\ month.ok /\ day.ok /\ hour.ok /\ minute.ok /\ second.ok)
             THEN Err("cast")
             ELSE Ok([year |-> year.val, month |-> month.val, day |-> day.val,
                      hour |-> hour.val, minute |-> minute.val,
                      second |-> second.val])

maybe_datetime(e) ==
    IF e.ext.some /\ to_ascii_lowercase(e.ext.val) \in {EXT_JPG, EXT_TIF, EXT_TIFF}
    THEN LET r == exif_datetime(e.exif)
         IN  IF r.ok THEN Some(r.val) ELSE None
    ELSE None

\* maybe_datetime.unwrap_or_else(|| mtime_datetime(&file))
resolve_datetime(e) ==
    LET m == maybe_datetime(e)
    IN  IF m.some THEN Ok(m.val) ELSE mtime_datetime(e.mtime)

----------------------------------------------------------------------------
(* The destination tree as Path::exists, create_dir_all and fs::copy see it *)

exists(path) ==
    IF Len(path) = 1 THEN path[1] \in dirs \cup plains
    ELSE path[1] \in dirs /\ <<path[1], path[2]>> \in files

\* std::fs::copy(path, &new_path) succeeds
copy_succeeds(e, path) ==
    /\ dstWritable
    /\ path[1] \in dirs
    /\ e.kind \in {"file", "symlink"}

----------------------------------------------------------------------------
(* The source trees and destination trees a run starts from *)

MaxEntries == 2     \* entries of any kind under args.src
MaxNamed == 3       \* entries under args.src when all are copyable files

EXT_JPG_UPPER == <<74, 80, 71>>      \* "JPG"
EXT_PNG == <<112, 110, 103>>         \* "png"
EXIF_BAD_DELIM == [EXIF_A EXCEPT ![11] = 120]   \* "2021:06:15x08:30:00"

\* what EXIF_A parses to
DT_A == [year |-> 2021, month |-> 6, day |-> 15, hour |-> 8, minute |-> 30,
         second |-> 0]

\* modification times as chrono::DateTime<Local> reports them
CHR_B == [year |-> 2020, month |-> 1, day |-> 1, hour |-> 0, minute |-> 0,
          second |-> 0]
CHR_BC == [CHR_B EXCEPT !.year = -1]

MTIME_B == [ok |-> TRUE, chr |-> CHR_B]
MTIME_BC == [ok |-> TRUE, chr |-> CHR_BC]
MTIME_ERR == [ok |-> FALSE, chr |-> CHR_B]

Ascii(s) == [res |-> "ascii", value |-> s]
ExifFails(why) == [res |-> why, value |-> <<>>]

Entry(kind, openable, ext, exif, mtime) ==
    [kind |-> kind, openable |-> openable, ext |-> ext, exif |-> exif,
     mtime |-> mtime]

\* regular files that open, get a date and can be copied
NamedEntries ==
    { Entry("file", TRUE, Some(EXT_JPG), Ascii(EXIF_A), MTIME_B),
      Entry("file", TRUE, Some(EXT_JPG_UPPER), Ascii(EXIF_A), MTIME_B),
      Entry("file", TRUE, Some(EXT_PNG), Ascii(EXIF_A), MTIME_B),
      Entry("file", TRUE, None, Ascii(EXIF_A), MTIME_B) }

SrcEntries ==
    NamedEntries \cup
    { Entry("dir", TRUE, None, ExifFails("notag"), MTIME_B),
      Entry("error", TRUE, None, ExifFails("notag"), MTIME_B),
      Entry("symlink", TRUE, Some(EXT_PNG), ExifFails("notag"), MTIME_B),
      Entry("special", TRUE, None, ExifFails("notag"), MTIME_B),
      Entry("file", FALSE, Some(EXT_JPG), Ascii(EXIF_A), MTIME_B),
      Entry("file", TRUE, Some(EXT_TIFF), Ascii(EXIF_A), MTIME_B),
      Entry("file", TRUE, Some(EXT_JPG), ExifFails("readerr"), MTIME_B),
      Entry("file", TRUE, Some(EXT_JPG), ExifFails("notag"), MTIME_B),
      Entry("file", TRUE, Some(EXT_JPG), ExifFails("nonascii"), MTIME_B),
      Entry("file", TRUE, Some(EXT_JPG), Ascii(BLANK_SPACES), MTIME_B),
      Entry("file", TRUE, Some(EXT_JPG), Ascii(EXIF_BAD_DELIM), MTIME_B),
      Entry("file", TRUE, Some(EXT_JPG), Ascii(BLANK_COLONS), MTIME_ERR),
      Entry("file", TRUE, Some(EXT_PNG), ExifFails("notag"), MTIME_ERR),
      Entry("file", TRUE, Some(EXT_PNG), ExifFails("notag"), MTIME_BC) }

SeqsUpTo(S, k) == UNION {[1..m -> S] : m \in 0..k}

SrcTrees == SeqsUpTo(SrcEntries, MaxEntries) \cup SeqsUpTo(NamedEntries, MaxNamed)

DIR_2020 == to_string(2020)
DIR_2021 == to_string(2021)
A_JPG_0 == <<DIR_2021, filename(DT_A, 0, Some(EXT_JPG))>>
A_JPG_1 == <<DIR_2021, filename(DT_A, 1, Some(EXT_JPG))>>

Tree(d, p, f) == [dirs |-> d, plains |-> p, files |-> f]

DstTrees ==
    { EmptyTree,
      Tree({DIR_2020, DIR_2021}, {}, {}),
      Tree({DIR_2021}, {}, {A_JPG_0}),
      Tree({DIR_2021}, {}, {A_JPG_1}),
      Tree({DIR_2021}, {}, {A_JPG_0, A_JPG_1}),
      Tree({DIR_2020}, {DIR_2021}, {}) }

\* the trees tried with a destination that refuses writes
ReadOnlyTrees == { EmptyTree, Tree({DIR_2021}, {}, {A_JPG_0}) }

----------------------------------------------------------------------------
(* main *)

Init ==
    /\ FnIdle
    /\ dry_run \in BOOLEAN
    /\ src \in SrcTrees
    /\ dstWritable \in BOOLEAN
    /\ dst0 \in (IF dstWritable THEN DstTrees ELSE ReadOnlyTrees)
    /\ dirs = dst0.dirs /\ plains = dst0.plains /\ files = dst0.files
    /\ pc = "walk" /\ idx = 0
    /\ datetime = NoDateTime /\ new_path = <<>> /\ n = 0
    /\ stdout = <<>> /\ copies = <<>> /\ made = <<>>
    /\ dryRun = NoRun

world == <<dry_run, src, dstWritable, dst0, dryRun>>
tree == <<dirs, plains, files>>
locals == <<datetime, new_path, n>>
outputs == <<stdout, copies, made>>

\* the locals of the loop body go out of scope
DropLocals == datetime' = NoDateTime /\ new_path' = <<>> /\ n' = 0

\* for entry in WalkDir::new(&args.src): the iterator is exhausted, Ok(())
WalkEnd ==
    /\ pc = "walk" /\ idx = Len(src)
    /\ pc' = "done"
    /\ UNCHANGED <<idx, world, tree, locals, outputs, fnVars>>

\* let entry = entry?;  with an Err from the iterator
WalkError ==
    /\ pc = "walk" /\ idx < Len(src)
    /\ src[idx + 1].kind = "error"
    /\ idx' = idx + 1
    /\ pc' = "failed"
    /\ UNCHANGED <<world, tree, locals, outputs, fnVars>>

\* if entry.file_type().is_dir() { continue; }
SkipDir ==
    /\ pc = "walk" /\ idx < Len(src)
    /\ src[idx + 1].kind = "dir"
    /\ idx' = idx + 1
    /\ UNCHANGED <<pc, world, tree, locals, outputs, fnVars>>

VisitEntry ==
    /\ pc = "walk" /\ idx < Len(src)
    /\ src[idx + 1].kind \notin {"error", "dir"}
    /\ idx' = idx + 1
    /\ pc' = "open"
    /\ UNCHANGED <<world, tree, locals, outputs, fnVars>>

\* File::open(path): Err, eprintln and continue
OpenFail ==
    /\ pc = "open"
    /\ ~src[idx].openable
    /\ pc' = "walk"
    /\ UNCHANGED <<idx, world, tree, locals, outputs, fnVars>>

OpenOk ==
    /\ pc = "open"
    /\ src[idx].openable
    /\ pc' = "extract"
    /\ UNCHANGED <<idx, world, tree, locals, outputs, fnVars>>

\* maybe_datetime and datetime
Extract ==
    /\ pc = "extract"
    /\ resolve_datetime(src[idx]).ok
    /\ datetime' = resolve_datetime(src[idx]).val
    /\ pc' = "mkdir"
    /\ UNCHANGED <<idx, new_path, n, world, tree, outputs, fnVars>>

\* mtime_datetime panics
ExtractPanic ==
    /\ pc = "extract"
    /\ ~resolve_datetime(src[idx]).ok
    /\ pc' = "panicked"
    /\ UNCHANGED <<idx, world, tree, locals, outputs, fnVars>>

year_dir == <<to_string(datetime.year)>>

\* new_path = args.dst.join(year); it exists; new_path.push(filename(0)); n = 1
YearDirPresent ==
    /\ pc = "mkdir"
    /\ exists(year_dir)
    /\ new_path' = Append(year_dir, filename(datetime, 0, src[idx].ext))
    /\ n' = 1
    /\ pc' = "probe"
    /\ UNCHANGED <<idx, datetime, world, tree, outputs, fnVars>>

\* ... it does not exist: create_dir_all(&new_path).unwrap() returns
YearDirCreate ==
    /\ pc = "mkdir"
    /\ ~exists(year_dir)
    /\ dstWritable
    /\ dirs' = dirs \cup {year_dir[1]}
    /\ made' = Append(made, [entry |-> idx, dir |-> year_dir[1]])
    /\ new_path' = Append(year_dir, filename(datetime, 0, src[idx].ext))
    /\ n' = 1
    /\ pc' = "probe"
    /\ UNCHANGED <<idx, datetime, world, plains, files, stdout, copies, fnVars>>

\* ... create_dir_all fails and unwrap panics
YearDirPanic ==
    /\ pc = "mkdir"
    /\ ~exists(year_dir)
    /\ ~dstWritable
    /\ pc' = "panicked"
    /\ UNCHANGED <<idx, world, tree, locals, outputs, fnVars>>

\* while new_path.exists() { new_path.set_file_name(filename(n)); n += 1; }
ProbeNext ==
    /\ pc = "probe"
    /\ exists(new_path)
    /\ new_path' = <<new_path[1], filename(datetime, n, src[idx].ext)>>
    /\ n' = n + 1
    /\ UNCHANGED <<pc, idx, datetime, world, tree, outputs, fnVars>>

ProbeEnd ==
    /\ pc = "probe"
    /\ ~exists(new_path)
    /\ pc' = "emit"
    /\ UNCHANGED <<idx, world, tree, locals, outputs, fnVars>>

\* if args.dry_run { println!("{path:?} -> {new_path:?}"); }
PrintMapping ==
    /\ pc = "emit"
    /\ dry_run
    /\ stdout' = Append(stdout, [entry |-> idx, dst |-> new_path])
    /\ pc' = "walk"
    /\ DropLocals
    /\ UNCHANGED <<idx, world, tree, copies, made, fnVars>>

\* else std::fs::copy(path, &new_path) returns Ok
CopyOk ==
    /\ pc = "emit"
    /\ ~dry_run
    /\ copy_succeeds(src[idx], new_path)
    /\ files' = files \cup {new_path}
    /\ copies' = Append(copies, [entry |-> idx, dst |-> new_path, ok |-> TRUE])
    /\ pc' = "walk"
    /\ DropLocals
    /\ UNCHANGED <<idx, world, dirs, plains, stdout, made, fnVars>>

\* ... returns Err: eprintln and continue
CopyFail ==
    /\ pc = "emit"
    /\ ~dry_run
    /\ ~copy_succeeds(src[idx], new_path)
    /\ copies' = Append(copies, [entry |-> idx, dst |-> new_path, ok |-> FALSE])
    /\ pc' = "walk"
    /\ DropLocals
    /\ UNCHANGED <<idx, world, tree, stdout, made, fnVars>>

\* the process has ended
Ended == pc \in {"done", "failed", "panicked"}

\* Args::parse of a second run: the dry run is repeated without --dry-run
\* on the same source tree and the destination tree as it was before
Relaunch ==
    /\ Ended
    /\ dry_run
    /\ ~dryRun.ran
    /\ dryRun' = [ran |-> TRUE, status |-> pc, stdout |-> stdout]
    /\ dry_run' = FALSE
    /\ dirs' = dst0.dirs /\ plains' = dst0.plains /\ files' = dst0.files
    /\ pc' = "walk" /\ idx' = 0
    /\ DropLocals
    /\ stdout' = <<>> /\ copies' = <<>> /\ made' = <<>>
    /\ UNCHANGED <<src, dstWritable, dst0, fnVars>>

Next ==
    \/ WalkEnd \/ WalkError \/ SkipDir \/ VisitEntry
    \/ OpenFail \/ OpenOk
    \/ Extract \/ ExtractPanic
    \/ YearDirPresent \/ YearDirCreate \/ YearDirPanic
    \/ ProbeNext \/ ProbeEnd
    \/ PrintMapping \/ CopyOk \/ CopyFail
    \/ Relaunch

Spec == Init /\ [][Next]_vars

----------------------------------------------------------------------------
(* Decimal notation, stated positionally for the properties below *)

AllDigits(s) == \A i \in 1..Len(s) : s[i] \in 48..57

\* the number a string of ASCII digits denotes
RECURSIVE PositionalSum(_, _)
PositionalSum(s, i) ==
    IF i > Len(s) THEN 0
    ELSE (s[i] - ZERO) * (10 ^ (Len(s) - i)) + PositionalSum(s, i + 1)

DecimalValue(s) == PositionalSum(s, 1)

\* how many digits the decimal notation of v has
NumDigits(v) == CHOOSE m \in 1..10 : (m = 10 \/ v < 10 ^ m) /\ (m = 1 \/ v >= 10 ^ (m - 1))

\* v in decimal, at least w characters wide, zeros on the left
Decimal(v, w) ==
    LET m == IF NumDigits(v) > w THEN NumDigits(v) ELSE w
    IN  [i \in 1..m |-> ZERO + ((v \div (10 ^ (m - i))) % 10)]

\* the digits of T::MAX
MaxDigits(w) ==
    IF w = 8 THEN <<2, 5, 5>>
    ELSE IF w = 16 THEN <<6, 5, 5, 3, 5>>
    ELSE <<4, 2, 9, 4, 9, 6, 7, 2, 9, 5>>

LeadingZeros(s) ==
    Cardinality({i \in 1..Len(s) : \A j \in 1..i : s[j] = ZERO})

\* the number the digit string s denotes is above T::MAX
ExceedsMax(s, w) ==
    LET d == [i \in 1..(Len(s) - LeadingZeros(s)) |-> s[i + LeadingZeros(s)] - ZERO]
        m == MaxDigits(w)
    IN  \/ Len(d) > Len(m)
        \/ /\ Len(d) = Len(m)
           /\ \E i \in 1..Len(d) : d[i] > m[i] /\ \A j \in 1..(i - 1) : d[j] = m[j]

----------------------------------------------------------------------------
(* C8: atou into an unsigned type of width w fails when a byte is not an   *)
(* ASCII digit, fails when the digits denote a number above T::MAX, and    *)
(* otherwise returns the number the digits denote.                         *)
AtouIsCheckedDecimal ==
    (called /\ width # 0) =>
        IF ~AllDigits(input) THEN ~ret.ok
        ELSE IF ExceedsMax(input, width) THEN ~ret.ok
        ELSE ret.ok /\ ret.val = DecimalValue(input)

\* "256" into u8 has been refused
AtouOverflowRefused ==
    called /\ width = 8 /\ input = <<50, 53, 54>> /\ ~ret.ok

----------------------------------------------------------------------------
(* C6: on a 19-byte input of the layout YYYY:MM:DD HH:MM:SS               *)
(* parse_exif_datetime succeeds and returns the decimal values of the six  *)
(* fields, whatever the calendar says about them.                          *)
HasLayout(d) ==
    /\ Len(d) = 19
    /\ d[5] = 58 /\ d[8] = 58 /\ d[11] = 32 /\ d[14] = 58 /\ d[17] = 58
    /\ \A i \in (1..19) \ {5, 8, 11, 14, 17} : d[i] \in 48..57

\* bytes 0..4, 5..7, 8..10, 11..13, 14..16, 17..19, counted from one
FieldsOf(d) ==
    [year |-> DecimalValue(SubSeq(d, 1, 4)), month |-> DecimalValue(SubSeq(d, 6, 7)),
     day |-> DecimalValue(SubSeq(d, 9, 10)), hour |-> DecimalValue(SubSeq(d, 12, 13)),
     minute |-> DecimalValue(SubSeq(d, 15, 16)),
     second |-> DecimalValue(SubSeq(d, 18, 19))]

ParseReturnsTheFields ==
    (called /\ width = 0 /\ HasLayout(input)) =>
        (ret.ok /\ ret.val = FieldsOf(input))

\* month 13, day 99 has been accepted
ParseAcceptedMonth13 ==
    /\ called /\ width = 0 /\ HasLayout(input)
    /\ ret.ok /\ ret.val.month = 13 /\ ret.val.day = 99 /\ ret.val.year = 2021

----------------------------------------------------------------------------
(* What the properties of main speak about *)

\* the entry main is working on
cur == src[idx]

Resolving == pc \in {"mkdir", "probe", "emit"}

\* the name the format "YYYY-MM-DD HH.MM.SS", the counter k and the
\* extension call for
NameOf(dt, k, ext) ==
    Decimal(dt.year, 4) \o <<DASH>> \o Decimal(dt.month, 2) \o <<DASH>>
        \o Decimal(dt.day, 2) \o <<SP>> \o Decimal(dt.hour, 2) \o <<DOT>>
        \o Decimal(dt.minute, 2) \o <<DOT>> \o Decimal(dt.second, 2)
        \o (IF k >= 1 THEN Decimal(k, 1) ELSE <<>>)
        \o (IF ext.some THEN <<DOT>> \o ext.val ELSE <<>>)

\* the modification time of an entry as a DateTime
MtimeOf(e) ==
    [year |-> e.mtime.chr.year, month |-> e.mtime.chr.month,
     day |-> e.mtime.chr.day, hour |-> e.mtime.chr.hour,
     minute |-> e.mtime.chr.minute, second |-> e.mtime.chr.second]

\* the extension selects the EXIF branch
IsExifExt(e) ==
    e.ext.some /\ to_ascii_lowercase(e.ext.val) \in {EXT_JPG, EXT_TIF, EXT_TIFF}

\* parse_exif_datetime is called for the entry
ParseCalled(e) == IsExifExt(e) /\ e.exif.res = "ascii"

----------------------------------------------------------------------------
(* C1: the path the probe loop settles on does not exist, is a direct      *)
(* child of dst/<year of datetime>, and that year directory exists; so a   *)
(* copy never targets an existing file.                                    *)
ResolvedPathIsFreshInYearDir ==
    pc = "emit" =>
        /\ Len(new_path) = 2
        /\ new_path[1] = Decimal(datetime.year, 1)
        /\ new_path[1] \in dirs
        /\ new_path \notin files
        /\ ~exists(new_path)

----------------------------------------------------------------------------
(* C2: the name chosen is name(k) for the least k >= 0 whose path does not *)
(* exist, name(0) being the zero-padded timestamp plus "." and the         *)
(* extension if there is one, name(k) having the digits of k right after   *)
(* the seconds; in a year directory that starts empty the files copied     *)
(* with one timestamp and extension get k = 0, 1, 2, ... in order.         *)
SameStamp(c) ==
    /\ c.ok
    /\ c.dst[1] = new_path[1]
    /\ \E j \in 0..Len(copies) : c.dst[2] = NameOf(datetime, j, cur.ext)

----------------------------------------------------------------------------
(* C3: with --dry-run the destination tree stays as it was.                *)
DryRunLeavesTreeAlone ==
    dry_run => Tree(dirs, plains, files) = dst0

----------------------------------------------------------------------------
(* C4: the pairs a dry run prints are the copies the run without           *)
(* --dry-run makes from the same source and destination trees.             *)
CopiesAsPairs == [i \in 1..Len(copies) |-> [entry |-> copies[i].entry, dst |-> copies[i].dst]]

DryRunPrintsTheCopies ==
    (dryRun.ran /\ Ended) => dryRun.stdout = CopiesAsPairs

----------------------------------------------------------------------------
(* C5: no per-file error ends the run; the run fails only when walking     *)
(* the source tree fails.                                                  *)
PerFileErrorsAreSwallowed ==
    /\ pc # "panicked"
    /\ pc = "failed" => cur.kind = "error"

----------------------------------------------------------------------------
(* C7: parse_exif_datetime refuses the blank sentinels and every input     *)
(* with a wrong delimiter or shorter than 19 bytes, and a file whose tag   *)
(* it refuses is named from its modification time.                         *)
Malformed(d) ==
    \/ d \in {BLANK_COLONS, BLANK_SPACES}
    \/ \A i \in 1..Len(d) : d[i] = SP
    \/ Len(d) < 19
    \/ d[5] # 58 \/ d[8] # 58 \/ d[11] # 32 \/ d[14] # 58 \/ d[17] # 58

RefusedTagFallsBackToMtime ==
    [][(pc = "extract" /\ ParseCalled(cur)) =>
          /\ Malformed(cur.exif.value) => ~parse_exif_datetime(cur.exif.value).ok
          /\ ~parse_exif_datetime(cur.exif.value).ok =>
                (pc' = "mkdir" /\ datetime' = MtimeOf(cur))]_vars

----------------------------------------------------------------------------
(* C9: extraction always yields a DateTime: the EXIF value when the        *)
(* extension is jpg, tif or tiff in any case and the tag is there, is      *)
(* text and parses, the modification time otherwise.                       *)
ExtractionNeverFails ==
    [][pc = "extract" =>
          /\ pc' = "mkdir"
          /\ datetime' =
                IF ParseCalled(cur) /\ parse_exif_datetime(cur.exif.value).ok
                THEN FieldsOf(cur.exif.value)
                ELSE MtimeOf(cur)]_vars

----------------------------------------------------------------------------
(* C10: only regular files get a year directory, a resolved path, a        *)
(* printed mapping or a copy.                                              *)
OnlyRegularFilesProcessed ==
    /\ Resolving => cur.kind = "file"
    /\ \A i \in 1..Len(made) : src[made[i].entry].kind = "file"
    /\ \A i \in 1..Len(stdout) : src[stdout[i].entry].kind = "file"
    /\ \A i \in 1..Len(copies) : src[copies[i].entry].kind = "file"

----------------------------------------------------------------------------
(* Lemmas: the parts of the refuted properties that do hold *)

\* under SpecParse: every malformed input is refused
ParserRefusesMalformed ==
    (called /\ width = 0 /\ Malformed(input)) => ~ret.ok

\* under Spec: a DateTime, once produced, is the EXIF value exactly when the
\* EXIF branch is taken and the tag parses, and the modification time otherwise
DateTimeSourceIsAsStated ==
    Resolving =>
        datetime = IF ParseCalled(cur) /\ parse_exif_datetime(cur.exif.value).ok
                   THEN FieldsOf(cur.exif.value)
                   ELSE MtimeOf(cur)

\* under Spec: the settled path is absent and sits directly under the entry
\* of args.dst that carries the year's name
ResolvedPathIsAbsent ==
    pc = "emit" =>
        /\ Len(new_path) = 2
        /\ new_path[1] = Decimal(datetime.year, 1)
        /\ new_path[1] \in dirs \cup plains
        /\ ~exists(new_path)

\* under Spec: a dry run adds no file and removes nothing
DryRunAddsNoFile ==
    dry_run => (files = dst0.files /\ plains = dst0.plains /\ dst0.dirs \subseteq dirs)

\* under Spec: the run returns Err only on an error of the walk
OnlyWalkErrorsFail ==
    pc = "failed" => cur.kind = "error"

\* under Spec: no directory entry is ever processed
NoDirectoryProcessed ==
    /\ Resolving => cur.kind # "dir"
    /\ \A i \in 1..Len(made) : src[made[i].entry].kind # "dir"
    /\ \A i \in 1..Len(stdout) : src[stdout[i].entry].kind # "dir"
    /\ \A i \in 1..Len(copies) : src[copies[i].entry].kind # "dir"

====
